---- MODULE Spec2Model ----
(***************************************************************************)
(* A model of the customer-service chatbot backend:                        *)
(*   src/project_backend/src/services/groq_service.py  (GroqService)       *)
(*   src/project_backend/src/services/rag_service.py   (RAGService)        *)
(*   src/project_backend/src/routes/chat.py            (HTTP endpoints)    *)
(*                                                                         *)
(* Texts are sequences of tokens.  A token stands for a fixed phrase; the  *)
(* text a sequence stands for is its phrases joined by one blank, except   *)
(* that nothing is put next to a line break:                               *)
(*   "W"   We offer cloud migration.       (25 characters, punctuated)     *)
(*   "P"   Pricing Overview                (16 characters, only \w and \s) *)
(*   "NL"  a line break                                                    *)
(*   "BR"  Best regards,                                                   *)
(*   "TC"  TechCorp Solutions                                              *)
(*   "CS"  Customer Service                                                *)
(*   "PH"  [Your Name]                                                     *)
(*   "ph"  [your name]                                                     *)
(*   "HM"  ##                                                              *)
(*   "DV"  Dear valued customer                                            *)
(*   "L"   a 145-character paragraph of a document (contexts only)         *)
(*   "FRAG" what is left of a phrase that a slice cut through              *)
(*   "FB", "FC1", "FC2", "FQ1", "FQ2", "GREET", "BYE"  canned bodies       *)
(* Every regular expression of _clean_response is IGNORECASE, so the only  *)
(* phrase kept in two letter cases is the placeholder.                     *)
(***************************************************************************)
EXTENDS Integers, Sequences, FiniteSets, TLC

\* ------------------------------------------------------------------ bounds
MaxRawLen == 3
MaxCtxLen == 2
MaxDocs == 2
MaxUpload == 1
MaxRows == 4
MaxStore == 7
MaxReplyLen == 2
MaxThreads == 2
MaxInstances == 3
MaxResets == 1

\* --------------------------------------------------------------- constants
MinCleanLen == 20
ContextSlice == 150

\* ------------------------------------------------------------- text basics
RawTokens == {"W", "P", "NL", "BR", "TC", "CS", "PH", "ph", "HM", "DV"}
CtxTokens == {"PH", "L"}
Whitespace == {"NL", "SP"}
Placeholders == {"PH", "ph"}
\* the phrases made only of characters of the class [\w\s\-:]
PlainTokens == {"P", "TC", "CS", "DV", "NL"}

TokLen(tok) ==
    CASE tok = "W" -> 25
      [] tok = "P" -> 16
      [] tok = "NL" -> 1
      [] tok = "SP" -> 1
      [] tok = "BR" -> 13
      [] tok = "TC" -> 18
      [] tok = "CS" -> 16
      [] tok \in Placeholders -> 11
      [] tok = "HM" -> 2
      [] tok = "DV" -> 20
      [] tok = "L" -> 145
      [] tok = "FRAG" -> 1
      [] OTHER -> 40

\* one blank between two phrases, none next to white space
Sep(t, i) == IF i > 1 /\ t[i] \notin Whitespace /\ t[i-1] \notin Whitespace THEN 1 ELSE 0

RECURSIVE LenUpTo(_, _)
LenUpTo(t, i) == IF i = 0 THEN 0 ELSE LenUpTo(t, i - 1) + Sep(t, i) + TokLen(t[i])

\* len(text)
TextLen(t) == LenUpTo(t, Len(t))

SeqsUpTo(S, n) == UNION {[1..k -> S] : k \in 0..n}

\* str.strip()
Strip(t) ==
    LET keep == {i \in 1..Len(t) : t[i] \notin Whitespace}
    IN IF keep = {} THEN <<>>
       ELSE SubSeq(t, CHOOSE i \in keep : \A j \in keep : i <= j,
                      CHOOSE i \in keep : \A j \in keep : i >= j)

\* text[:n]
RECURSIVE SliceFrom(_, _, _, _)
SliceFrom(t, i, used, n) ==
    IF i > Len(t) THEN <<>>
    ELSE LET start == used + Sep(t, i)
         IN IF start >= n THEN <<>>
            ELSE IF start + TokLen(t[i]) <= n
                 THEN <<t[i]>> \o SliceFrom(t, i + 1, start + TokLen(t[i]), n)
                 ELSE <<"FRAG">>

Slice(t, n) == SliceFrom(t, 1, 0, n)

FirstIdx(t, S, from) ==
    LET hits == {i \in from..Len(t) : t[i] \in S}
    IN IF hits = {} THEN 0 ELSE CHOOSE i \in hits : \A j \in hits : i <= j

Signature == <<"BR", "NL", "TC", "CS">>

\* the places where the literal signature starts in t
SignatureAt(t) == {i \in 1..(Len(t) - 3) : SubSeq(t, i, i + 3) = Signature}

EndsWithSignature(t) == Len(t) >= 4 /\ SubSeq(t, Len(t) - 3, Len(t)) = Signature

HasPlaceholder(t) == \E i \in 1..Len(t) : t[i] \in Placeholders

\* ------------------------------------------------------------- GroqService
\* an optional value (None, or a text)
None == [some |-> FALSE, val |-> <<>>]
Some(v) == [some |-> TRUE, val |-> v]
\* Python truthiness of an optional text
Truthy(r) == r.some /\ r.val # <<>>

\* str.lower(), phrase by phrase
LowerTok(tok) ==
    CASE tok = "PH" -> "ph"
      [] tok = "Greeting" -> "greeting"
      [] tok = "Farewell" -> "farewell"
      [] tok = "Relevant" -> "relevant"
      [] OTHER -> tok

Lower(t) == [i \in 1..Len(t) |-> LowerTok(t[i])]

\* _chat: api is the outcome of the HTTP request, [ok |-> status 200 with a
\* well-formed body, content |-> the first choice's content]
Chat_(api) == IF api.ok THEN Some(Strip(api.content)) ELSE None

\* _chat: the temperature (in tenths) and max_tokens of the request it sends
MinTemperature == 1
MaxTokensLimit == 8192

ChatDataUnclamped(temperature, max_tokens) ==
    [temperature |-> temperature, max_tokens |-> max_tokens]

ChatData(temperature, max_tokens) ==
    [temperature |-> IF temperature <= 0 THEN MinTemperature ELSE temperature,
     max_tokens |-> IF max_tokens > MaxTokensLimit THEN MaxTokensLimit ELSE max_tokens]

\* _chat as a whole: [raised, val, data].  The request and the reading of
\* the response are inside try/except Exception, so nothing escapes.
ChatCall(temperature, max_tokens, api) ==
    [raised |-> FALSE, val |-> Chat_(api), data |-> ChatData(temperature, max_tokens)]

\* the placeholder patterns, each replaced by 'TechCorp Solutions Customer Service'
RECURSIVE ReplacePlaceholdersCaseSensitive(_)
ReplacePlaceholdersCaseSensitive(t) ==
    IF t = <<>> THEN <<>>
    ELSE (IF Head(t) = "PH" THEN <<"TC", "CS">> ELSE <<Head(t)>>)
         \o ReplacePlaceholdersCaseSensitive(Tail(t))

RECURSIVE ReplacePlaceholders(_)
ReplacePlaceholders(t) ==
    IF t = <<>> THEN <<>>
    ELSE (IF LowerTok(Head(t)) \in Placeholders THEN <<"TC", "CS">> ELSE <<Head(t)>>)
         \o ReplacePlaceholders(Tail(t))

\* re.sub(r'^.*?X.*?\n.*?\n', '', t): the text up to the second line break
\* after the first X goes
StripLeadingSignoff(t, X) ==
    LET i == FirstIdx(t, {X}, 1)
        j == IF i = 0 THEN 0 ELSE FirstIdx(t, {"NL"}, i + 1)
        k == IF j = 0 THEN 0 ELSE FirstIdx(t, {"NL"}, j + 1)
    IN IF k = 0 THEN t ELSE SubSeq(t, k + 1, Len(t))

\* re.sub(r'\n\s*X.*$', '', t, MULTILINE | DOTALL): the text from the first
\* run of line breaks that X follows goes
CutTrailing(t, X) ==
    LET hits == {q \in 2..Len(t) : t[q] = X /\ t[q-1] = "NL"}
    IN IF hits = {} THEN t
       ELSE LET q == CHOOSE x \in hits : \A y \in hits : x <= y
                runs == {p \in 1..(q-1) : \A r \in p..(q-1) : t[r] = "NL"}
                p == CHOOSE x \in runs : \A y \in runs : x <= y
            IN SubSeq(t, 1, p - 1)

\* the sign-off phrases of signature_patterns that the alphabet holds, in the
\* order of the list ('Sincerely,', 'Thank you,', 'Regards,' and 'AI Assistant'
\* have no phrase; the patterns after them all start with '\n\s*Best regards,',
\* which the first one has already cut)
SignaturePatterns == <<"BR", "TC", "CS">>

RECURSIVE CutAll(_, _)
CutAll(t, pats) == IF pats = <<>> THEN t ELSE CutAll(CutTrailing(t, Head(pats)), Tail(pats))

\* re.match(r'^(\*\*|#|##|...) ?[\w\s\-:]+(\*\*)?:?$', t)
IsMarkdownHeader(t) ==
    /\ Len(t) >= 2
    /\ t[1] = "HM"
    /\ \A i \in 2..Len(t) : t[i] \in PlainTokens

\* re.search(r'best regards.*techcorp.*service', t, IGNORECASE | DOTALL)
HasSignatureLike(t) ==
    \E i, j, k \in 1..Len(t) : i < j /\ j < k /\ t[i] = "BR" /\ t[j] = "TC" /\ t[k] = "CS"

FallbackResponse(query, context) ==
    (IF context # <<>>
     THEN <<"FC1">> \o Slice(context, ContextSlice) \o <<"FC2">>
     ELSE <<"FB">>) \o <<"NL", "NL">> \o Signature

\* the text _clean_response is left with before its length gate
CleanedBody(response) ==
    LET replaced == ReplacePlaceholders(response)
        headless == StripLeadingSignoff(replaced, "BR")
    IN Strip(CutAll(headless, SignaturePatterns))

TooShortOrHeader(body) ==
    \/ TextLen(body) < MinCleanLen
    \* '' and 'dear customer' are shorter than MinCleanLen already
    \/ Lower(body) \in {<<>>, <<"DV">>}
    \/ IsMarkdownHeader(body)

CleanResponse(response) ==
    LET Gate(body) ==
            IF TooShortOrHeader(body) THEN FallbackResponse(<<>>, <<>>)
            ELSE IF HasSignatureLike(body) THEN body
            ELSE body \o <<"NL", "NL">> \o Signature
    IN IF response = <<>> THEN FallbackResponse(<<>>, <<>>)
       ELSE Gate(CleanedBody(response))

GenerateResponse(query, context, api) ==
    LET result == Chat_(api)
    IN IF Truthy(result) THEN CleanResponse(result.val)
       ELSE FallbackResponse(query, context)

GenerateResponseFromPrompt(prompt, api) ==
    LET result == Chat_(api)
    IN IF Truthy(result) THEN CleanResponse(result.val)
       ELSE FallbackResponse(Slice(prompt, 100), <<>>)


\* -------------------------------------------------------------- RAGService
\* The PDFs and the text chunks the splitter makes of each ("scan" holds no
\* extractable text).
PdfChunks(pdf) ==
    CASE pdf = "TechCorp" -> <<"t1", "t2">>
      [] pdf = "manual" -> <<"m1">>
      [] OTHER -> <<>>

\* The uploaded files: [filename, utf8 (file.read().decode('utf-8') works),
\* chunks (what split_text makes of the content)].
UploadFiles ==
    { [filename |-> "notes", utf8 |-> TRUE, chunks |-> <<"n1">>],
      [filename |-> "stops", utf8 |-> TRUE, chunks |-> <<"s1">>],
      [filename |-> "binary", utf8 |-> FALSE, chunks |-> <<>>],
      [filename |-> "", utf8 |-> TRUE, chunks |-> <<"n1">>] }

\* chunks whose words are all English stop words: TfidfVectorizer finds no
\* vocabulary in them
StopOnly == {"s1"}

NoIndex == [some |-> FALSE, val |-> <<>>]

Contents(documents) == [i \in 1..Len(documents) |-> documents[i].content]

\* the saved vector store on disk: absent, unloadable, or the saved chunks
DiskAbsent == [kind |-> "absent", chunks |-> <<>>]
DiskCorrupt == [kind |-> "corrupt", chunks |-> <<>>]
DiskValid(chunks) == [kind |-> "valid", chunks |-> chunks]

\* get_pdf_info: the PDFs of the project root, else those of company_documents
GetPdfInfo(root, sub) ==
    IF root # <<>> THEN [available |-> TRUE, files |-> root]
    ELSE IF sub # <<>> THEN [available |-> TRUE, files |-> sub]
    ELSE [available |-> FALSE, files |-> <<>>]

\* the fields of a RAGService that __init__ sets before it loads anything,
\* and a history of the instance: added, the chunks of the files for which
\* add_document returned 'success'; id tells the instances of the threaded
\* server apart (0 where requests are served one at a time)
NewService ==
    [documents |-> <<>>, faiss_index |-> NoIndex, document_vectors |-> NoIndex,
     added |-> {}, id |-> 0]

\* load_faiss_index
LoadFaissIndexIgnoringDisk(svc, disk) ==
    [svc EXCEPT !.faiss_index = NoIndex, !.documents = <<>>]

LoadFaissIndex(svc, disk) ==
    IF disk.kind = "valid"
    THEN [svc EXCEPT !.faiss_index = Some(disk.chunks),
                     !.documents = [i \in 1..Len(disk.chunks) |->
                                      [title |-> [kind |-> "Document", n |-> i],
                                       content |-> disk.chunks[i],
                                       processed |-> FALSE]]]
    ELSE [svc EXCEPT !.faiss_index = NoIndex, !.documents = <<>>]

\* process_pdf_and_index: [raised, svc, disk, processed (PDFs indexed),
\* attempted (process_pdf_and_index was called)].
\* FAISS.from_texts raises on an empty list of chunks, before anything is
\* saved or stored.
ProcessPdfAndIndex(svc, disk, pdf) ==
    LET text_chunks == PdfChunks(pdf)
    IN IF text_chunks = <<>>
       THEN [raised |-> TRUE, svc |-> svc, disk |-> disk, processed |-> 0,
             attempted |-> TRUE]
       ELSE [raised |-> FALSE, attempted |-> TRUE,
             svc |-> [svc EXCEPT
                        !.documents = [i \in 1..Len(text_chunks) |->
                                         [title |-> [kind |-> "Chunk", n |-> i],
                                          content |-> text_chunks[i],
                                          processed |-> FALSE]],
                        !.faiss_index = Some(text_chunks)],
             disk |-> DiskValid(text_chunks),
             processed |-> 1]

\* build_vectors: [raised, svc].  doc["processed_content"] is a KeyError for
\* a document that has none; fit_transform raises ValueError on an empty
\* vocabulary.
BuildVectors(svc) ==
    IF svc.documents = <<>> THEN [raised |-> FALSE, svc |-> svc]
    ELSE IF \E i \in 1..Len(svc.documents) : ~svc.documents[i].processed
    THEN [raised |-> TRUE, svc |-> svc]
    ELSE IF \A i \in 1..Len(svc.documents) : svc.documents[i].content \in StopOnly
    THEN [raised |-> TRUE, svc |-> svc]
    ELSE [raised |-> FALSE,
          svc |-> [svc EXCEPT !.document_vectors = Some(Contents(svc.documents))]]

\* load_knowledge_base: pickle is None (no knowledge_base.pkl) or
\* Some([documents, document_vectors])
LoadKnowledgeBase(svc, pickle) ==
    IF ~pickle.some THEN svc
    ELSE LET loaded == [svc EXCEPT !.documents = pickle.val.documents,
                                   !.document_vectors = pickle.val.document_vectors]
         IN IF loaded.documents # <<>> /\ ~loaded.document_vectors.some
            THEN LET b == BuildVectors(loaded)
                 IN IF b.raised THEN [svc EXCEPT !.documents = <<>>,
                                                 !.document_vectors = NoIndex]
                    ELSE b.svc
            ELSE loaded

\* load_sample_documents without the test on self.documents
LoadSampleDocumentsAlways(svc, disk, root, sub) ==
    LET pdf_info == GetPdfInfo(root, sub)
    IN IF pdf_info.available
       THEN ProcessPdfAndIndex(svc, disk, pdf_info.files[1])
       ELSE [raised |-> FALSE, svc |-> svc, disk |-> disk, processed |-> 0,
             attempted |-> FALSE]

\* load_sample_documents: [raised, svc, disk, processed, attempted]
LoadSampleDocuments(svc, disk, root, sub) ==
    LET pdf_info == GetPdfInfo(root, sub)
    IN IF svc.documents = <<>> /\ pdf_info.available
       THEN ProcessPdfAndIndex(svc, disk, pdf_info.files[1])
       ELSE [raised |-> FALSE, svc |-> svc, disk |-> disk, processed |-> 0,
             attempted |-> FALSE]

\* force_process_pdf: what process_pdf_and_index raises is caught and logged
ForceProcessPdf(svc, disk, root, sub) ==
    LET pdf_info == GetPdfInfo(root, sub)
        r == ProcessPdfAndIndex(svc, disk, pdf_info.files[1])
    IN IF pdf_info.available /\ ~r.raised THEN r
       ELSE [raised |-> FALSE, svc |-> svc, disk |-> disk, processed |-> 0,
             attempted |-> pdf_info.available]

\* RAGService.__init__: [raised, svc, disk, loaded (the index came from disk),
\* processed (PDFs indexed on the way), trace (the loaders called, in order:
\* [fn, empty (self.documents was empty at the call), attempted
\* (process_pdf_and_index was called), indexed (and it succeeded)])]
Construct(disk, root, sub, pickle) ==
    LET Loader(fn, svc) ==
            [fn |-> fn, empty |-> svc.documents = <<>>, attempted |-> FALSE,
             indexed |-> FALSE]
        Step(fn, svc, r) ==
            [fn |-> fn, empty |-> svc.documents = <<>>, attempted |-> r.attempted,
             indexed |-> r.processed > 0]
        Forced(trace, r2, r3) ==
            [raised |-> FALSE, svc |-> r3.svc, disk |-> r3.disk,
             loaded |-> FALSE, processed |-> r2.processed + r3.processed,
             trace |-> Append(trace, Step("force_process_pdf", r2.svc, r3))]
        Sampled(trace, s1, r2) ==
            IF r2.raised
            THEN [raised |-> TRUE, svc |-> s1, disk |-> disk,
                  loaded |-> FALSE, processed |-> 0,
                  trace |-> Append(trace, Step("load_sample_documents", s1, r2))]
            ELSE IF r2.svc.documents = <<>>
            THEN Forced(Append(trace, Step("load_sample_documents", s1, r2)), r2,
                        ForceProcessPdf(r2.svc, r2.disk, root, sub))
            ELSE [raised |-> FALSE, svc |-> r2.svc, disk |-> r2.disk,
                  loaded |-> FALSE, processed |-> r2.processed,
                  trace |-> Append(trace, Step("load_sample_documents", s1, r2))]
        Loaded(trace, s1) == Sampled(trace, s1, LoadSampleDocuments(s1, disk, root, sub))
        Started(s0) ==
            IF s0.faiss_index.some
            THEN [raised |-> FALSE, svc |-> s0, disk |-> disk, loaded |-> TRUE,
                  processed |-> 0, trace |-> <<Loader("load_faiss_index", NewService)>>]
            ELSE Loaded(<<Loader("load_faiss_index", NewService),
                          Loader("load_knowledge_base", s0)>>,
                        LoadKnowledgeBase(s0, pickle))
    IN Started(LoadFaissIndex(NewService, disk))

\* add_document_content: the chunks are appended, then build_vectors runs
AddDocumentContent(svc, title, chunks) ==
    BuildVectors([svc EXCEPT !.documents =
        @ \o [i \in 1..Len(chunks) |->
                [title |-> [kind |-> title, n |-> i],
                 content |-> chunks[i],
                 processed |-> TRUE]]])

\* add_document: [status, svc]
AddDocument(svc, file) ==
    IF ~file.utf8 THEN [status |-> "error", svc |-> svc]
    ELSE LET r == AddDocumentContent(svc, file.filename, file.chunks)
         IN IF r.raised THEN [status |-> "error", svc |-> r.svc]
            ELSE [status |-> "success",
                  svc |-> [r.svc EXCEPT !.added =
                             @ \cup {file.chunks[i] : i \in 1..Len(file.chunks)}]]

\* rebuild_faiss_index: [ok, svc, disk]
RebuildFaissIndex(svc, disk, root, sub) ==
    LET pdf_info == GetPdfInfo(root, sub)
        r == ProcessPdfAndIndex(svc, disk, pdf_info.files[1])
    IN IF pdf_info.available /\ ~r.raised
       THEN [ok |-> TRUE, svc |-> r.svc, disk |-> r.disk]
       ELSE [ok |-> FALSE, svc |-> svc, disk |-> disk]

\* ------------------------------------------------------------------ search
\* Similarities are in tenths (0.2 is 2), confidences in 1/600 (0.95 is 570).
TopK == 3
SimThreshold == 2
BestSimThreshold == 4
MinRagLen == 30

Reverse(q) == [i \in 1..Len(q) |-> q[Len(q) + 1 - i]]
Range(q) == {q[i] : i \in 1..Len(q)}

\* np.argsort(similarities)[::-1]: the rows by falling similarity, the later
\* row first among equals
RECURSIVE ArgsortDesc(_, _)
ArgsortDesc(sims, rows) ==
    IF rows = {} THEN <<>>
    ELSE LET best == CHOOSE r \in rows : \A o \in rows :
                        sims[r] > sims[o] \/ (sims[r] = sims[o] /\ r >= o)
         IN <<best>> \o ArgsortDesc(sims, rows \ {best})

RECURSIVE MaxOf(_)
MaxOf(q) == IF q = <<>> THEN 0
            ELSE LET m == MaxOf(Tail(q)) IN IF Head(q) > m THEN Head(q) ELSE m

RECURSIVE SumOf(_)
SumOf(q) == IF q = <<>> THEN 0 ELSE Head(q) + SumOf(Tail(q))

\* the rows of top_indices above the threshold that address a document
RECURSIVE LegacyResults(_, _, _)
LegacyResults(svc, sims, idxs) ==
    IF idxs = <<>> THEN <<>>
    ELSE LET idx == Head(idxs)
             rest == LegacyResults(svc, sims, Tail(idxs))
         IN IF sims[idx] > SimThreshold /\ idx <= Len(svc.documents)
            THEN <<[title |-> svc.documents[idx].title,
                    content |-> svc.documents[idx].content,
                    similarity |-> sims[idx]]>> \o rest
            ELSE rest

\* search_documents with the threshold on the best similarity left out
SearchDocumentsNoBestGate(svc, top_k, sims, fails) ==
    IF svc.documents = <<>> \/ ~svc.document_vectors.some THEN <<>>
    ELSE IF fails THEN <<>>
    ELSE LET sorted == ArgsortDesc(sims, 1..Len(svc.document_vectors.val))
         IN LegacyResults(svc, sims,
                SubSeq(sorted, 1, IF Len(sorted) < top_k THEN Len(sorted) ELSE top_k))

\* search_documents: sims[i] is the cosine similarity of the query with row i
\* of document_vectors; fails says that vectorizing the query raised
SearchDocuments(svc, top_k, sims, fails) ==
    IF svc.documents = <<>> \/ ~svc.document_vectors.some THEN <<>>
    ELSE IF fails THEN <<>>
    ELSE LET rows == 1..Len(svc.document_vectors.val)
             sorted == ArgsortDesc(sims, rows)
             top_indices == SubSeq(sorted, 1, IF Len(sorted) < top_k THEN Len(sorted) ELSE top_k)
             max_sim == MaxOf([i \in 1..Len(top_indices) |->
                                 IF sims[top_indices[i]] > SimThreshold
                                 THEN sims[top_indices[i]] ELSE 0])
         IN IF max_sim < BestSimThreshold THEN <<>>
            ELSE LegacyResults(svc, sims, top_indices)

\* retriever.invoke: the top_k nearest chunks of the store, nearest first
\* (the store's order and its reverse stand for the rankings a query can give)
Retrieve(store, top_k, flip) ==
    LET ordered == IF flip THEN Reverse(store) ELSE store
    IN SubSeq(ordered, 1, IF Len(ordered) < top_k THEN Len(ordered) ELSE top_k)

FaissResults(docs) ==
    LET all == [i \in 1..Len(docs) |->
                  [title |-> [kind |-> "Document", n |-> i],
                   content |-> docs[i],
                   similarity |-> 8 - (i - 1)]]
        kept == {i \in 1..Len(docs) : all[i].similarity > SimThreshold}
    IN SubSeq(all, 1, Cardinality(kept))

\* the chunks search_documents ranks and can return: those of the rows of
\* document_vectors that address the document they were computed from
LegacyOver(svc) ==
    IF svc.documents = <<>> \/ ~svc.document_vectors.some THEN {}
    ELSE {svc.document_vectors.val[i] :
            i \in {j \in 1..Len(svc.document_vectors.val) :
                     /\ j <= Len(svc.documents)
                     /\ svc.documents[j].content = svc.document_vectors.val[j]}}

\* search_documents_faiss: [docs, legacy (search_documents was called),
\* faiss_raised, had_index, over (the chunks the search that ran ranks), top_k]
SearchDocumentsFaissAlwaysLegacy(svc, top_k, env) ==
    [docs |-> SearchDocuments(svc, top_k, env.sims, env.legacy_fails),
     legacy |-> TRUE, faiss_raised |-> FALSE,
     had_index |-> svc.faiss_index.some /\ svc.documents # <<>>,
     over |-> LegacyOver(svc), top_k |-> top_k]

SearchDocumentsFaiss(svc, top_k, env) ==
    IF ~svc.faiss_index.some \/ svc.documents = <<>>
    THEN [docs |-> SearchDocuments(svc, top_k, env.sims, env.legacy_fails),
          legacy |-> TRUE, faiss_raised |-> FALSE, had_index |-> FALSE,
          over |-> LegacyOver(svc), top_k |-> top_k]
    ELSE IF env.retriever = "raise"
    THEN [docs |-> SearchDocuments(svc, top_k, env.sims, env.legacy_fails),
          legacy |-> TRUE, faiss_raised |-> TRUE, had_index |-> TRUE,
          over |-> LegacyOver(svc), top_k |-> top_k]
    ELSE LET results == FaissResults(Retrieve(svc.faiss_index.val, top_k, env.flip))
             max_sim == MaxOf([i \in 1..Len(results) |-> results[i].similarity])
         IN [docs |-> IF max_sim < BestSimThreshold THEN <<>> ELSE results,
             legacy |-> FALSE, faiss_raised |-> FALSE, had_index |-> TRUE,
             over |-> Range(svc.faiss_index.val), top_k |-> top_k]

\* --------------------------------------------------------- process_message
ValidIntents == {"greeting", "farewell", "pricing", "products", "support",
                 "technical", "general", "irrelevant"}

\* analyze_query_intent without the membership test
AnalyzeQueryIntentUnchecked(api) ==
    LET result == Chat_(api)
    IN [raised |-> FALSE,
        val |-> IF Truthy(result) /\ Len(result.val) = 1
                THEN LowerTok(result.val[1]) ELSE "general"]

\* analyze_query_intent: [raised, val]
AnalyzeQueryIntent(api) ==
    LET result == Chat_(api)
    IN [raised |-> FALSE,
        val |-> IF Truthy(result) /\ Len(result.val) = 1
                   /\ LowerTok(result.val[1]) \in ValidIntents
                THEN LowerTok(result.val[1]) ELSE "general"]

\* check_relevance: [raised, val]
CheckRelevanceUnguarded(api) ==
    LET result == Chat_(api)
    IN [raised |-> ~result.some,
        val |-> result.some /\ Lower(Strip(result.val)) = <<"relevant">>]

\* check_relevance looking for 'relevant' anywhere in the reply
CheckRelevanceContains(api) ==
    LET result == Chat_(api)
    IN [raised |-> FALSE,
        val |-> Truthy(result) /\ "relevant" \in Range(Lower(result.val))]

CheckRelevance(api) ==
    LET result == Chat_(api)
    IN [raised |-> FALSE,
        val |-> Truthy(result) /\ Lower(Strip(result.val)) = <<"relevant">>]

IsGreeting(api) ==
    LET r == AnalyzeQueryIntent(api) IN [raised |-> r.raised, val |-> r.val = "greeting"]
IsFarewell(api) ==
    LET r == AnalyzeQueryIntent(api) IN [raised |-> r.raised, val |-> r.val = "farewell"]
IsRelevantToCompany(api) == CheckRelevance(api)

GenerateGreetingResponse == <<"GREET">>
GenerateFarewellResponse == <<"BYE">>

\* generate_fallback_response
GenerateFallbackResponse(query) ==
    <<"FQ1">> \o query \o <<"FQ2", "NL", "NL">> \o Signature

\* the default four suggestions, and the lists generate_suggested_responses
\* picks by the first keyword group found in the lower-cased query (of the
\* groups, the message words of the model spell 'cloud', 'price' and 'help')
GenerateSuggestedResponses(query) ==
    IF "cloud" \in Range(Lower(query)) THEN "cloud"
    ELSE IF "price" \in Range(Lower(query)) THEN "pricing"
    ELSE IF "help" \in Range(Lower(query)) THEN "support"
    ELSE "default"

\* re.match(r'^\*\*.*\*\*:?$', t): one line that opens and closes with '**'
\* (the canned bodies open with '**' but hold line breaks)
IsBoldLine(t) ==
    /\ t # <<>>
    /\ Range(t) \cap {"NL", "FB", "FC1", "FC2", "FQ1", "FQ2"} = {}
    /\ Head(t) \in {"FB", "FC1"}
    /\ t[Len(t)] \in {"FB", "FC2"}

\* generate_rag_response
GenerateRagResponse(query, context_docs, api) ==
    IF context_docs = <<>> THEN GenerateFallbackResponse(query)
    ELSE LET Checked(response) ==
                 IF response = <<>> \/ TextLen(Strip(response)) < MinRagLen
                    \/ IsBoldLine(Strip(response))
                 THEN GenerateFallbackResponse(query)
                 ELSE response
         IN Checked(GenerateResponse(<<"PROMPT">>, <<>>, api))

DefaultEnv ==
    [intent1 |-> [ok |-> FALSE, content |-> <<>>],
     intent2 |-> [ok |-> FALSE, content |-> <<>>],
     relevance |-> [ok |-> FALSE, content |-> <<>>],
     retriever |-> "ok", flip |-> FALSE,
     sims |-> <<>>, legacy_fails |-> FALSE,
     answer |-> [ok |-> FALSE, content |-> <<>>]]

NoSearch == [ran |-> FALSE, legacy |-> FALSE, faiss_raised |-> FALSE,
             had_index |-> FALSE, n |-> 0, over |-> {}, top_k |-> 0, sims |-> <<>>]
NoResult == [response |-> <<>>, confidence |-> 0, context_used |-> FALSE,
             sources |-> <<>>, suggested_responses |-> "none",
             pdf_available |-> FALSE]

Result(response, confidence, context_used, sources, suggested, pdf_available) ==
    [response |-> response, confidence |-> confidence,
     context_used |-> context_used, sources |-> sources,
     suggested_responses |-> suggested, pdf_available |-> pdf_available]

\* np.mean(similarities) with the clamp left out, in 1/600
ConfidenceUnclamped(docs) ==
    (60 * SumOf([i \in 1..Len(docs) |-> docs[i].similarity])) \div Len(docs)

\* min(0.95, max(0.7, np.mean(similarities))), in 1/600
Confidence(docs) ==
    LET mean == (60 * SumOf([i \in 1..Len(docs) |-> docs[i].similarity])) \div Len(docs)
    IN IF mean < 420 THEN 420 ELSE IF mean > 570 THEN 570 ELSE mean

\* What process_message hands back: [raised, result, calls (the classifier,
\* search and LLM answer calls in the order made), verdicts (what each
\* classifier call answered, "-" when it was not made), search].
NoVerdicts == [greeting |-> "-", farewell |-> "-", relevant |-> "-"]
Verdict(v) == IF v THEN "yes" ELSE "no"

PmOut(raised, result, calls, verdicts, srch) ==
    [raised |-> raised, result |-> result, calls |-> calls, verdicts |-> verdicts,
     search |-> srch]

Searched(s) ==
    [ran |-> TRUE, legacy |-> s.legacy, faiss_raised |-> s.faiss_raised,
     had_index |-> s.had_index, n |-> Len(s.docs), over |-> s.over,
     top_k |-> s.top_k, sims |-> [i \in 1..Len(s.docs) |-> s.docs[i].similarity]]

\* process_message from the search on, with context_used set on the branch
\* without documents as well
AnswerContextAlways(pdf_available, message, env, verdicts, s) ==
    IF s.docs # <<>>
    THEN PmOut(FALSE,
               Result(GenerateRagResponse(message, s.docs, env.answer),
                      Confidence(s.docs), TRUE,
                      [i \in 1..Len(s.docs) |->
                         [title |-> s.docs[i].title, similarity |-> s.docs[i].similarity]],
                      GenerateSuggestedResponses(message), pdf_available),
               <<"is_greeting", "is_farewell", "is_relevant", "search", "generate">>,
               verdicts, Searched(s))
    ELSE PmOut(FALSE,
               Result(GenerateFallbackResponse(message), 360, TRUE, <<>>, "default",
                      pdf_available),
               <<"is_greeting", "is_farewell", "is_relevant", "search">>,
               verdicts, Searched(s))

\* process_message from the search on, asking the API for the answer a second
\* time
AnswerGenerateTwice(pdf_available, message, env, verdicts, s) ==
    IF s.docs # <<>>
    THEN PmOut(FALSE,
               Result(GenerateRagResponse(message, s.docs, env.answer),
                      Confidence(s.docs), TRUE,
                      [i \in 1..Len(s.docs) |->
                         [title |-> s.docs[i].title, similarity |-> s.docs[i].similarity]],
                      GenerateSuggestedResponses(message), pdf_available),
               <<"is_greeting", "is_farewell", "is_relevant", "search", "generate",
                 "generate">>,
               verdicts, Searched(s))
    ELSE PmOut(FALSE,
               Result(GenerateFallbackResponse(message), 360, FALSE, <<>>, "default",
                      pdf_available),
               <<"is_greeting", "is_farewell", "is_relevant", "search">>,
               verdicts, Searched(s))

\* process_message from the search on: s is what search_documents_faiss gave
Answer(pdf_available, message, env, verdicts, s) ==
    IF s.docs # <<>>
    THEN PmOut(FALSE,
               Result(GenerateRagResponse(message, s.docs, env.answer),
                      Confidence(s.docs), TRUE,
                      [i \in 1..Len(s.docs) |->
                         [title |-> s.docs[i].title, similarity |-> s.docs[i].similarity]],
                      GenerateSuggestedResponses(message), pdf_available),
               <<"is_greeting", "is_farewell", "is_relevant", "search", "generate">>,
               verdicts, Searched(s))
    ELSE PmOut(FALSE,
               Result(GenerateFallbackResponse(message), 360, FALSE, <<>>, "default",
                      pdf_available),
               <<"is_greeting", "is_farewell", "is_relevant", "search">>,
               verdicts, Searched(s))

\* process_message from the relevance check on: r is what
\* is_relevant_to_company gave
AfterRelevanceSearchAnyway(svc, pdf_available, message, env, verdicts, r) ==
    Answer(pdf_available, message, env, [verdicts EXCEPT !.relevant = Verdict(r.val)],
           SearchDocumentsFaiss(svc, TopK, env))

AfterRelevance(svc, pdf_available, message, env, verdicts, r) ==
    IF r.raised
    THEN PmOut(TRUE, NoResult, <<"is_greeting", "is_farewell", "is_relevant">>,
               verdicts, NoSearch)
    ELSE IF ~r.val
    THEN PmOut(FALSE,
               Result(GenerateFallbackResponse(message), 300, FALSE, <<>>, "default",
                      pdf_available),
               <<"is_greeting", "is_farewell", "is_relevant">>,
               [verdicts EXCEPT !.relevant = "no"], NoSearch)
    ELSE Answer(pdf_available, message, env, [verdicts EXCEPT !.relevant = "yes"],
                SearchDocumentsFaiss(svc, TopK, env))

\* process_message.  env holds what the hosted API, the retriever and the
\* TF-IDF search answer during this call.
ProcessMessage(svc, pdf_available, message, env) ==
    LET Farewell(f) ==
            IF f.raised
            THEN PmOut(TRUE, NoResult, <<"is_greeting", "is_farewell">>,
                       [NoVerdicts EXCEPT !.greeting = "no"], NoSearch)
            ELSE IF f.val
            THEN PmOut(FALSE,
                       Result(GenerateFarewellResponse, 570, FALSE, <<>>, "none",
                              pdf_available),
                       <<"is_greeting", "is_farewell">>,
                       [NoVerdicts EXCEPT !.greeting = "no", !.farewell = "yes"], NoSearch)
            ELSE AfterRelevance(svc, pdf_available, message, env,
                                [NoVerdicts EXCEPT !.greeting = "no", !.farewell = "no"],
                                IsRelevantToCompany(env.relevance))
        Greeting(g) ==
            IF g.raised THEN PmOut(TRUE, NoResult, <<"is_greeting">>, NoVerdicts, NoSearch)
            ELSE IF g.val
            THEN PmOut(FALSE,
                       Result(GenerateGreetingResponse, 570, FALSE, <<>>, "default",
                              pdf_available),
                       <<"is_greeting">>, [NoVerdicts EXCEPT !.greeting = "yes"], NoSearch)
            ELSE Farewell(IsFarewell(env.intent2))
    IN Greeting(IsGreeting(env.intent1))

\* ------------------------------------------------------------------- state
VARIABLES
    rag_service, \* chat.py's global: None, or the RAGService constructed
    faiss_disk,  \* data/faiss_index on disk
    root_pdfs,   \* the listing of the PDFs in the project root
    sub_pdfs,    \* the listing of the PDFs in company_documents
    kb_pickle,   \* data/knowledge_base.pkl
    http,        \* the response of the last request
    last,        \* what the last request's handler did on the way
    g_api,       \* GroqService under test: the outcome of the API request
    g_context,   \* ... the context handed to generate_response
    g_out,       \* ... the function applied and the string it returned
    gets         \* the calls of get_rag_service in flight on the threaded server

gvars == <<g_api, g_context, g_out>>
svars == <<rag_service, faiss_disk, root_pdfs, sub_pdfs, kb_pickle, http, last, gets>>
vars == <<rag_service, faiss_disk, root_pdfs, sub_pdfs, kb_pickle, http, last,
          g_api, g_context, g_out, gets>>

\* get_rag_service per request thread: pc is where the call stands ("idle",
\* "constructing" after it saw None, "returning" before it reads the global
\* for its return, "returned"), got the instance it returned (0 for None),
\* since the number of resets when it began; made counts the instances
\* constructed and resets the calls of reset_rag_service
Threads == 1..MaxThreads
NoGets == [made |-> 0, resets |-> 0,
           call |-> [t \in Threads |-> [pc |-> "idle", got |-> 0, since |-> 0]]]

NoService == [some |-> FALSE, val |-> NewService]
NoCtor == [ran |-> FALSE, raised |-> FALSE, loaded |-> FALSE, processed |-> 0,
           trace |-> <<>>, docs |-> <<>>, index |-> FALSE]
NoPm == [called |-> FALSE, raised |-> FALSE, arg |-> <<>>, result |-> NoResult,
         verdicts |-> NoVerdicts,
         calls |-> <<>>]
NoConv == [some |-> FALSE, val |-> ""]
NoRequest == [json |-> "none", has_message |-> FALSE, is_str |-> FALSE,
              message |-> <<>>, conversation_id |-> NoConv]
NoRebuild == [called |-> FALSE, ok |-> FALSE]
Idle == [ctor |-> NoCtor, pm |-> NoPm, search |-> NoSearch, request |-> NoRequest,
         rebuild |-> NoRebuild]
NoHttp == [endpoint |-> "none", status |-> 0, error |-> "", message |-> "",
           conversation_id |-> "", body |-> NoResult, files |-> <<>>]

\* --------------------------------------------------------------- endpoints
\* get_rag_service: [raised, rs, disk, ctor]
GetRagService(rs, disk, root, sub, pickle) ==
    LET Made(c) ==
            [raised |-> c.raised,
             rs |-> IF c.raised THEN NoService ELSE Some(c.svc),
             disk |-> c.disk,
             ctor |-> [ran |-> TRUE, raised |-> c.raised, loaded |-> c.loaded,
                       processed |-> c.processed, trace |-> c.trace,
                       docs |-> IF c.raised THEN <<>> ELSE Contents(c.svc.documents),
                       index |-> ~c.raised /\ c.svc.faiss_index.some]]
    IN IF rs.some THEN [raised |-> FALSE, rs |-> rs, disk |-> disk, ctor |-> NoCtor]
       ELSE Made(Construct(disk, root, sub, pickle))

Reply(endpoint, status, error, message) ==
    [NoHttp EXCEPT !.endpoint = endpoint, !.status = status, !.error = error,
                   !.message = message]

\* health_check: what it answers, given whether get_rag_service raised
HealthReply(raised) ==
    IF raised THEN Reply("health", 500, "unhealthy", "")
    ELSE Reply("health", 200, "", "healthy")

\* rebuild_index: what it answers, given whether get_rag_service raised and
\* what rebuild_faiss_index returned
RebuildReplyIgnoringResult(raised, success) ==
    IF raised THEN Reply("rebuild", 500, "exception", "")
    ELSE Reply("rebuild", 200, "", "FAISS index rebuilt successfully")

RebuildReply(raised, success) ==
    IF raised THEN Reply("rebuild", 500, "exception", "")
    ELSE IF success THEN Reply("rebuild", 200, "", "FAISS index rebuilt successfully")
    ELSE Reply("rebuild", 500, "Failed to rebuild FAISS index", "")

\* the checks of chat before it touches the service: "ok", or what it answers
ValidateChatUntrimmed(req) ==
    IF req.json = "raise" THEN "raise"
    ELSE IF req.json = "none" \/ ~req.has_message THEN "required"
    ELSE IF ~req.is_str THEN "raise"
    ELSE IF req.message = <<>> THEN "empty"
    ELSE "ok"

ValidateChat(req) ==
    IF req.json = "raise" THEN "raise"
    ELSE IF req.json = "none" \/ ~req.has_message THEN "required"
    ELSE IF ~req.is_str THEN "raise"
    ELSE IF Strip(req.message) = <<>> THEN "empty"
    ELSE "ok"

\* user_message = data['message'].strip()
UserMessageUntrimmed(req) == req.message

UserMessage(req) == Strip(req.message)

\* chat: [http, rs, disk, last]
ChatHandler(req, rs, disk, root, sub, pickle, env) ==
    LET Out(h, r, d, l) == [http |-> h, rs |-> r, disk |-> d, last |-> l]
        seen == [Idle EXCEPT !.request = req]
        failed == Reply("chat", 500, "Internal server error", "")
        user_message == UserMessage(req)
        conversation_id == IF req.conversation_id.some /\ req.conversation_id.val # ""
                           THEN req.conversation_id.val ELSE "uuid"
        Did(g, pm) ==
            [seen EXCEPT !.ctor = g.ctor,
                         !.pm = [called |-> TRUE, raised |-> pm.raised,
                                 arg |-> user_message, result |-> pm.result,
                                 verdicts |-> pm.verdicts, calls |-> pm.calls],
                         !.search = pm.search]
        Processed(g, pm) ==
            IF pm.raised THEN Out(failed, g.rs, g.disk, Did(g, pm))
            ELSE Out([Reply("chat", 200, "", "") EXCEPT
                         !.conversation_id = conversation_id, !.body = pm.result],
                     g.rs, g.disk, Did(g, pm))
        Served(g) ==
            IF g.raised THEN Out(failed, g.rs, g.disk, [seen EXCEPT !.ctor = g.ctor])
            ELSE Processed(g, ProcessMessage(g.rs.val, GetPdfInfo(root, sub).available,
                                             user_message, env))
        Checked(v) ==
            IF v = "raise" THEN Out(failed, rs, disk, seen)
            ELSE IF v = "required"
            THEN Out(Reply("chat", 400, "Message is required", ""), rs, disk, seen)
            ELSE IF v = "empty"
            THEN Out(Reply("chat", 400, "Message cannot be empty", ""), rs, disk, seen)
            ELSE Served(GetRagService(rs, disk, root, sub, pickle))
    IN Checked(ValidateChat(req))

\* upload_documents: the files of the request, in order, skipping those
\* without a filename
RECURSIVE AddDocuments(_, _)
AddDocuments(svc, files) ==
    IF files = <<>> THEN [svc |-> svc, results |-> <<>>]
    ELSE IF Head(files).filename = "" THEN AddDocuments(svc, Tail(files))
    ELSE LET r == AddDocument(svc, Head(files))
             rest == AddDocuments(r.svc, Tail(files))
         IN [svc |-> rest.svc,
             results |-> <<[filename |-> Head(files).filename, status |-> r.status]>>
                         \o rest.results]

\* ------------------------------------------------------------- environment
Fails == [ok |-> FALSE, content |-> <<>>]
Says(text) == [ok |-> TRUE, content |-> text]

IntentApis == {Fails, Says(<<"greeting">>), Says(<<"Farewell">>)}
RelevanceApis == {Fails, Says(<<"Relevant">>), Says(<<"irrelevant">>)}
AnswerApis == {Fails, Says(<<"W", "W">>), Says(<<"BR", "PH">>)}
SimValues == {1, 3, 10}

\* what the TF-IDF search can meet: nothing to compute, a failure, or one
\* similarity per row of document_vectors
LegacyEnvs(svc) ==
    IF svc.documents = <<>> \/ ~svc.document_vectors.some
    THEN {[sims |-> <<>>, fails |-> FALSE]}
    ELSE {[sims |-> <<>>, fails |-> TRUE]}
         \cup {[sims |-> q, fails |-> FALSE] :
                 q \in [1..Len(svc.document_vectors.val) -> SimValues]}

\* what a search can meet: the retriever answers (in one of the orders) or
\* raises, and the TF-IDF search whenever it is the one to run
SearchEnvs(svc) ==
    LET legacy(retriever) ==
            {[retriever |-> retriever, flip |-> FALSE, sims |-> l.sims,
              legacy_fails |-> l.fails] : l \in LegacyEnvs(svc)}
    IN IF ~svc.faiss_index.some \/ svc.documents = <<>> THEN legacy("ok")
       ELSE {[retriever |-> "ok", flip |-> b, sims |-> <<>>, legacy_fails |-> FALSE] :
               b \in IF Len(svc.faiss_index.val) > 1 THEN BOOLEAN ELSE {FALSE}}
            \cup legacy("raise")

\* the answers of the hosted API, the retriever and the TF-IDF search to the
\* calls one process_message makes (a call not made has no answer).  The two
\* intent calls classify the same message and get the same answer: a pair of
\* different answers ends in one of the outcomes these give.
Envs(svc) ==
    LET Other == {a \in IntentApis : ~IsGreeting(a).val /\ ~IsFarewell(a).val}
    IN {[DefaultEnv EXCEPT !.intent1 = a] : a \in {x \in IntentApis : IsGreeting(x).val}}
       \cup {[DefaultEnv EXCEPT !.intent1 = a, !.intent2 = a] :
               a \in {x \in IntentApis : IsFarewell(x).val}}
       \cup {[DefaultEnv EXCEPT !.intent1 = a, !.intent2 = a, !.relevance = c] :
               a \in Other,
               c \in {x \in RelevanceApis : ~IsRelevantToCompany(x).val}}
       \cup {[intent1 |-> a, intent2 |-> a, relevance |-> c,
              retriever |-> e.retriever, flip |-> e.flip, sims |-> e.sims,
              legacy_fails |-> e.legacy_fails, answer |-> w] :
               a \in Other,
               c \in {x \in RelevanceApis : IsRelevantToCompany(x).val},
               e \in SearchEnvs(svc), w \in AnswerApis}

\* what request.get_json() gives the chat endpoint: no body, a body that is
\* not JSON, a body without 'message', a message that is no string, and
\* messages with and without text, with the conversation_id absent, empty
\* or given
ChatRequests ==
    { [NoRequest EXCEPT !.json = "none"],
      [NoRequest EXCEPT !.json = "raise"],
      [NoRequest EXCEPT !.json = "dict", !.conversation_id = Some("c1")],
      [NoRequest EXCEPT !.json = "dict", !.has_message = TRUE] }
    \cup {[json |-> "dict", has_message |-> TRUE, is_str |-> TRUE,
           message |-> m, conversation_id |-> Some("c1")] :
             m \in {<<>>, <<"SP">>, <<"SP", "cloud", "SP">>}}
    \cup {[json |-> "dict", has_message |-> TRUE, is_str |-> TRUE,
           message |-> <<"hello">>, conversation_id |-> c] :
             c \in {NoConv, Some("")}}

Answered(req) == ValidateChat(req) = "ok"

\* ----------------------------------------------------------------- actions
Init ==
    /\ rag_service = NoService
    /\ faiss_disk \in {DiskAbsent, DiskCorrupt}
    /\ root_pdfs \in {<<>>, <<"scan">>, <<"manual">>}
    /\ sub_pdfs \in {<<>>, <<"manual">>}
    /\ kb_pickle = None
    /\ http = NoHttp
    /\ last = Idle
    /\ g_api = Fails
    /\ g_context = <<>>
    /\ g_out = [fn |-> "none", text |-> <<>>]
    /\ gets = NoGets

\* POST /chat
Chat ==
    LET ChatRespond(o) ==
            /\ http' = o.http
            /\ rag_service' = o.rs
            /\ faiss_disk' = o.disk
            /\ last' = o.last
            /\ UNCHANGED <<root_pdfs, sub_pdfs, kb_pickle, gvars, gets>>
        ChatServe(g) ==
            \E req \in ChatRequests :
              \E env \in IF Answered(req) /\ ~g.raised THEN Envs(g.rs.val)
                         ELSE {DefaultEnv} :
                ChatRespond(ChatHandler(req, rag_service, faiss_disk, root_pdfs, sub_pdfs,
                                    kb_pickle, env))
    IN ChatServe(GetRagService(rag_service, faiss_disk, root_pdfs, sub_pdfs, kb_pickle))

\* GET /health
HealthCheck ==
    LET HealthRespond(g) ==
            /\ http' = HealthReply(g.raised)
            /\ rag_service' = g.rs
            /\ faiss_disk' = g.disk
            /\ last' = [Idle EXCEPT !.ctor = g.ctor]
            /\ UNCHANGED <<root_pdfs, sub_pdfs, kb_pickle, gvars, gets>>
    IN HealthRespond(GetRagService(rag_service, faiss_disk, root_pdfs, sub_pdfs, kb_pickle))

\* POST /reset-rag-service
ResetRagServiceEndpoint ==
    /\ rag_service' = NoService
    /\ http' = Reply("reset", 200, "", "RAG service reset successfully")
    /\ last' = Idle
    /\ UNCHANGED <<faiss_disk, root_pdfs, sub_pdfs, kb_pickle, gvars, gets>>

\* POST /upload-documents: has_files says whether the form has a 'files' part
UploadDocuments ==
    LET UploadRespond(g, has_files, a) ==
            /\ g.raised \/ ~has_files \/ Len(a.svc.documents) <= MaxDocs
            /\ faiss_disk' = g.disk
            /\ last' = [Idle EXCEPT !.ctor = g.ctor]
            /\ IF g.raised
               THEN /\ http' = Reply("upload", 500, "Failed to process documents", "")
                    /\ rag_service' = g.rs
               ELSE IF ~has_files
               THEN /\ http' = Reply("upload", 400, "No files provided", "")
                    /\ rag_service' = g.rs
               ELSE /\ http' = [Reply("upload", 200, "", "Successfully processed")
                                  EXCEPT !.files = a.results]
                    /\ rag_service' = Some(a.svc)
            /\ UNCHANGED <<root_pdfs, sub_pdfs, kb_pickle, gvars, gets>>
        UploadServe(g) ==
            \E has_files \in BOOLEAN, files \in SeqsUpTo(UploadFiles, MaxUpload) :
              /\ has_files \/ files = <<>>
              /\ UploadRespond(g, has_files, AddDocuments(g.rs.val, files))
    IN UploadServe(GetRagService(rag_service, faiss_disk, root_pdfs, sub_pdfs, kb_pickle))

\* POST /rebuild-index
RebuildIndex ==
    LET RebuildRespond(g, r) ==
            /\ http' = RebuildReply(g.raised, r.ok)
            /\ IF g.raised
               THEN /\ last' = [Idle EXCEPT !.ctor = g.ctor]
                    /\ rag_service' = g.rs
                    /\ faiss_disk' = g.disk
               ELSE /\ last' = [Idle EXCEPT !.ctor = g.ctor,
                                           !.rebuild = [called |-> TRUE, ok |-> r.ok]]
                    /\ rag_service' = Some(r.svc)
                    /\ faiss_disk' = r.disk
            /\ UNCHANGED <<root_pdfs, sub_pdfs, kb_pickle, gvars, gets>>
        RebuildServe(g) == RebuildRespond(g, RebuildFaissIndex(g.rs.val, g.disk, root_pdfs, sub_pdfs))
    IN RebuildServe(GetRagService(rag_service, faiss_disk, root_pdfs, sub_pdfs, kb_pickle))

\* generate_company_pdf.py, run in the project root: the PDF it writes shows
\* up somewhere in the listing
GenerateCompanyPdf ==
    /\ "TechCorp" \notin Range(root_pdfs)
    /\ \E k \in 0..Len(root_pdfs) :
         root_pdfs' = SubSeq(root_pdfs, 1, k) \o <<"TechCorp">>
                      \o SubSeq(root_pdfs, k + 1, Len(root_pdfs))
    /\ http' = NoHttp
    /\ last' = Idle
    /\ UNCHANGED <<rag_service, faiss_disk, sub_pdfs, kb_pickle, gvars, gets>>

Next ==
    \/ Chat
    \/ HealthCheck
    \/ ResetRagServiceEndpoint
    \/ UploadDocuments
    \/ RebuildIndex
    \/ GenerateCompanyPdf

Spec == Init /\ [][Next]_vars

\* ------------------------------------------ GroqService on its own (SpecText)
ApiOutcomes ==
    {[ok |-> FALSE, content |-> <<>>]}
    \cup {[ok |-> TRUE, content |-> c] : c \in SeqsUpTo(RawTokens, MaxRawLen)}

InitText ==
    /\ g_api \in ApiOutcomes
    /\ g_context \in SeqsUpTo(CtxTokens, MaxCtxLen)
    /\ g_out = [fn |-> "none", text |-> <<>>]
    /\ gets = NoGets
    /\ rag_service = NoService
    /\ faiss_disk = DiskAbsent
    /\ root_pdfs = <<>>
    /\ sub_pdfs = <<>>
    /\ kb_pickle = None
    /\ http = NoHttp
    /\ last = Idle

CallGenerateResponse ==
    /\ g_out.fn = "none"
    /\ g_out' = [fn |-> "generate_response",
                 text |-> GenerateResponse(<<"W">>, g_context, g_api)]
    /\ UNCHANGED <<g_api, g_context, svars>>

CallGenerateResponseFromPrompt ==
    /\ g_out.fn = "none"
    /\ g_out' = [fn |-> "generate_response_from_prompt",
                 text |-> GenerateResponseFromPrompt(g_context \o <<"W">>, g_api)]
    /\ UNCHANGED <<g_api, g_context, svars>>

\* _clean_response called with the raw content, as its other callers
\* (generate_greeting_response, generate_farewell_response) reach it
CallCleanResponse ==
    /\ g_out.fn = "none"
    /\ g_api.ok
    /\ g_out' = [fn |-> "_clean_response", text |-> CleanResponse(g_api.content)]
    /\ UNCHANGED <<g_api, g_context, svars>>

NextText ==
    \/ CallGenerateResponse
    \/ CallGenerateResponseFromPrompt
    \/ CallCleanResponse

SpecText == InitText /\ [][NextText]_vars

\* ------------------------------------ the two searches on their own (SpecSearch)
\* The chunks of a larger knowledge base, and the values of top_k: 3 is what
\* process_message passes, 5 the default.
SearchChunks == <<"k1", "k2", "k3", "k4", "k5", "k6", "k7", "k8", "k9">>
TopKs == {1, 3, 5, 7}

\* a service whose documents are n uploaded chunks, vectorized by build_vectors
UploadedService(n) ==
    [NewService EXCEPT
       !.documents = [i \in 1..n |-> [title |-> [kind |-> "notes", n |-> i],
                                      content |-> SearchChunks[i],
                                      processed |-> TRUE]],
       !.document_vectors = IF n = 0 THEN NoIndex ELSE Some(SubSeq(SearchChunks, 1, n))]

\* a service after process_pdf_and_index on a PDF of m chunks; the n rows of
\* document_vectors are those of earlier uploads
IndexedService(m, n) ==
    [UploadedService(n) EXCEPT
       !.documents = [i \in 1..m |-> [title |-> [kind |-> "Chunk", n |-> i],
                                      content |-> SearchChunks[i],
                                      processed |-> FALSE]],
       !.faiss_index = Some(SubSeq(SearchChunks, 1, m))]

InitSearch ==
    /\ rag_service \in {Some(UploadedService(n)) : n \in 0..MaxRows}
                       \cup {Some(IndexedService(m, n)) : m \in 1..MaxStore, n \in 0..1}
    /\ faiss_disk = DiskAbsent
    /\ root_pdfs = <<>>
    /\ sub_pdfs = <<>>
    /\ kb_pickle = None
    /\ http = NoHttp
    /\ last = Idle
    /\ g_api = Fails
    /\ g_context = <<>>
    /\ g_out = [fn |-> "none", text |-> <<>>]
    /\ gets = NoGets

\* search_documents called on the service
CallSearchDocuments ==
    /\ ~last.search.ran
    /\ \E top_k \in TopKs, l \in LegacyEnvs(rag_service.val) :
         last' = [Idle EXCEPT !.search =
                    Searched([docs |-> SearchDocuments(rag_service.val, top_k, l.sims, l.fails),
                              legacy |-> TRUE, faiss_raised |-> FALSE,
                              had_index |-> FALSE,
                              over |-> LegacyOver(rag_service.val),
                              top_k |-> top_k])]
    /\ UNCHANGED <<rag_service, faiss_disk, root_pdfs, sub_pdfs, kb_pickle, http, gvars, gets>>

\* search_documents_faiss called on the service
CallSearchDocumentsFaiss ==
    /\ ~last.search.ran
    /\ \E top_k \in TopKs, e \in SearchEnvs(rag_service.val) :
         last' = [Idle EXCEPT !.search =
                    Searched(SearchDocumentsFaiss(rag_service.val, top_k, e))]
    /\ UNCHANGED <<rag_service, faiss_disk, root_pdfs, sub_pdfs, kb_pickle, http, gvars, gets>>

NextSearch ==
    \/ CallSearchDocuments
    \/ CallSearchDocumentsFaiss

SpecSearch == InitSearch /\ [][NextSearch]_vars

\* ------------------------------- the classifiers and _chat on their own (SpecGroq)
\* What the hosted API can do with a request: the request fails (timeout,
\* connection), it answers with another status than 200, it answers 200 with
\* a body that is not the expected JSON, or it answers 200 with a content.
ReplyTokens == {"greeting", "Greeting", "farewell", "pricing", "chitchat",
                "relevant", "Relevant", "irrelevant", "SP"}

GroqResponses ==
    {[kind |-> k, ok |-> FALSE, content |-> <<>>] :
       k \in {"exception", "status", "malformed"}}
    \cup {[kind |-> "ok", ok |-> TRUE, content |-> c] :
            c \in SeqsUpTo(ReplyTokens, MaxReplyLen)}

\* the temperatures (in tenths) and max_tokens a caller can pass
Temperatures == {-1, 0, 1, 3, 5}
MaxTokens == {5, 10, 800, 8192, 8193}

InitGroq ==
    /\ g_api \in GroqResponses
    /\ g_context = <<>>
    /\ g_out = [fn |-> "none", ret |-> FALSE]
    /\ gets = NoGets
    /\ rag_service = NoService
    /\ faiss_disk = DiskAbsent
    /\ root_pdfs = <<>>
    /\ sub_pdfs = <<>>
    /\ kb_pickle = None
    /\ http = NoHttp
    /\ last = Idle

CallChat ==
    /\ g_out.fn = "none"
    /\ \E temperature \in Temperatures, max_tokens \in MaxTokens :
         g_out' = [fn |-> "_chat",
                   ret |-> ChatCall(temperature, max_tokens, g_api),
                   args |-> [temperature |-> temperature, max_tokens |-> max_tokens]]
    /\ UNCHANGED <<g_api, g_context, svars>>

CallAnalyzeQueryIntent ==
    /\ g_out.fn = "none"
    /\ g_out' = [fn |-> "analyze_query_intent", ret |-> AnalyzeQueryIntent(g_api)]
    /\ UNCHANGED <<g_api, g_context, svars>>

CallIsGreeting ==
    /\ g_out.fn = "none"
    /\ g_out' = [fn |-> "is_greeting", ret |-> IsGreeting(g_api)]
    /\ UNCHANGED <<g_api, g_context, svars>>

CallIsFarewell ==
    /\ g_out.fn = "none"
    /\ g_out' = [fn |-> "is_farewell", ret |-> IsFarewell(g_api)]
    /\ UNCHANGED <<g_api, g_context, svars>>

CallCheckRelevance ==
    /\ g_out.fn = "none"
    /\ g_out' = [fn |-> "check_relevance", ret |-> CheckRelevance(g_api)]
    /\ UNCHANGED <<g_api, g_context, svars>>

\* process_message on a service holding one uploaded chunk, for a message
\* that the intent calls did not classify and whose relevance call got g_api
CallProcessMessage ==
    /\ g_out.fn = "none"
    /\ g_out' = [fn |-> "process_message",
                 ret |-> ProcessMessage(UploadedService(1), FALSE, <<"hello">>,
                                        [DefaultEnv EXCEPT !.relevance = g_api,
                                                           !.sims = <<10>>,
                                                           !.answer = Says(<<"W", "W">>)])]
    /\ UNCHANGED <<g_api, g_context, svars>>

NextGroq ==
    \/ CallChat
    \/ CallAnalyzeQueryIntent
    \/ CallIsGreeting
    \/ CallIsFarewell
    \/ CallCheckRelevance
    \/ CallProcessMessage

SpecGroq == InitGroq /\ [][NextGroq]_vars

\* ------------------------------------------ construction on its own (SpecCtor)
\* What a start can find in data/knowledge_base.pkl: no file, a knowledge
\* base without documents, or one with a vectorized document.
Pickles ==
    {None,
     Some([documents |-> <<>>, document_vectors |-> NoIndex]),
     Some([documents |-> <<[title |-> [kind |-> "faq", n |-> 1], content |-> "f1",
                           processed |-> TRUE]>>,
           document_vectors |-> Some(<<"f1">>)])}

InitCtor ==
    /\ rag_service = NoService
    /\ faiss_disk \in {DiskAbsent, DiskCorrupt, DiskValid(<<"t1", "t2">>)}
    /\ root_pdfs \in {<<>>, <<"scan">>, <<"manual">>, <<"TechCorp">>,
                       <<"manual", "TechCorp">>}
    /\ sub_pdfs \in {<<>>, <<"manual">>}
    /\ kb_pickle \in Pickles
    /\ http = NoHttp
    /\ last = Idle
    /\ g_api = Fails
    /\ g_context = <<>>
    /\ g_out = [fn |-> "none", text |-> <<>>]
    /\ gets = NoGets

\* the service is obtained (and constructed when there is none) and dropped
NextCtor ==
    \/ HealthCheck
    \/ ResetRagServiceEndpoint

SpecCtor == InitCtor /\ [][NextCtor]_vars

\* ------------------------- get_rag_service on the threaded server (SpecThreads)
\* run_production.py serves with threaded=True: the calls of get_rag_service
\* of concurrent requests interleave between its statements.
InitThreads ==
    /\ rag_service = NoService
    /\ faiss_disk \in {DiskAbsent, DiskValid(<<"t1", "t2">>)}
    /\ root_pdfs \in {<<>>, <<"scan">>, <<"TechCorp">>}
    /\ sub_pdfs = <<>>
    /\ kb_pickle = None
    /\ http = NoHttp
    /\ last = Idle
    /\ g_api = Fails
    /\ g_context = <<>>
    /\ g_out = [fn |-> "none", text |-> <<>>]
    /\ gets = NoGets

\* 'if rag_service is None'
GetEnter(t) ==
    /\ gets.call[t].pc = "idle"
    /\ gets' = [gets EXCEPT !.call[t] =
                  [pc |-> IF rag_service.some THEN "returning" ELSE "constructing",
                   got |-> 0, since |-> gets.resets]]
    /\ UNCHANGED <<rag_service, faiss_disk, root_pdfs, sub_pdfs, kb_pickle, http, last,
                   gvars>>

\* 'rag_service = RAGService()': a constructor that raises ends the call
GetConstruct(t) ==
    LET Assign(c) ==
            IF c.raised
            THEN /\ gets' = [gets EXCEPT !.call[t].pc = "idle"]
                 /\ UNCHANGED <<rag_service, faiss_disk>>
            ELSE /\ rag_service' = Some([c.svc EXCEPT !.id = gets.made + 1])
                 /\ faiss_disk' = c.disk
                 /\ gets' = [gets EXCEPT !.made = @ + 1, !.call[t].pc = "returning"]
    IN /\ gets.call[t].pc = "constructing"
       /\ gets.made < MaxInstances
       /\ Assign(Construct(faiss_disk, root_pdfs, sub_pdfs, kb_pickle))
       /\ UNCHANGED <<root_pdfs, sub_pdfs, kb_pickle, http, last, gvars>>

\* 'return rag_service': the global is read again
GetReturn(t) ==
    /\ gets.call[t].pc = "returning"
    /\ gets' = [gets EXCEPT !.call[t].pc = "returned",
                            !.call[t].got = IF rag_service.some THEN rag_service.val.id
                                            ELSE 0]
    /\ UNCHANGED <<rag_service, faiss_disk, root_pdfs, sub_pdfs, kb_pickle, http, last,
                   gvars>>

\* the request is over; the thread takes another
GetDone(t) ==
    /\ gets.call[t].pc = "returned"
    /\ gets' = [gets EXCEPT !.call[t] = [pc |-> "idle", got |-> 0, since |-> 0]]
    /\ UNCHANGED <<rag_service, faiss_disk, root_pdfs, sub_pdfs, kb_pickle, http, last,
                   gvars>>

\* reset_rag_service
ResetRagService ==
    /\ gets.resets < MaxResets
    /\ rag_service' = NoService
    /\ gets' = [gets EXCEPT !.resets = @ + 1]
    /\ UNCHANGED <<faiss_disk, root_pdfs, sub_pdfs, kb_pickle, http, last, gvars>>

NextThreads ==
    \/ \E t \in Threads : GetEnter(t)
    \/ \E t \in Threads : GetConstruct(t)
    \/ \E t \in Threads : GetReturn(t)
    \/ \E t \in Threads : GetDone(t)
    \/ ResetRagService

SpecThreads == InitThreads /\ [][NextThreads]_vars

\* ------------------------------- process_message call by call (SpecSteps)
\* One chat message on a service that is there already.  g_api holds what the
\* hosted API, the retriever and the TF-IDF search answer to the calls of this
\* message and g_out what process_message makes of them; last.pm.calls grows
\* by one with every call process_message makes, and the reply is sent when
\* it has made them all.  Every call returns: requests.post is given
\* timeout=30 and the rest is local computation, so the steps are weakly fair.
InitSteps ==
    /\ rag_service \in {Some(UploadedService(1)), Some(IndexedService(2, 0))}
    /\ g_api \in Envs(rag_service.val)
    /\ g_out = [fn |-> "process_message",
                ret |-> ProcessMessage(rag_service.val, FALSE, <<"hello">>, g_api)]
    /\ faiss_disk = DiskAbsent
    /\ root_pdfs = <<>>
    /\ sub_pdfs = <<>>
    /\ kb_pickle = None
    /\ http = NoHttp
    /\ last = Idle
    /\ g_context = <<>>
    /\ gets = NoGets

PmBegin ==
    /\ ~last.pm.called
    /\ http = NoHttp
    /\ last' = [Idle EXCEPT !.pm.called = TRUE, !.pm.arg = <<"hello">>]
    /\ UNCHANGED <<rag_service, faiss_disk, root_pdfs, sub_pdfs, kb_pickle, http, gvars,
                   gets>>

PmCall ==
    /\ last.pm.called
    /\ http = NoHttp
    /\ Len(last.pm.calls) < Len(g_out.ret.calls)
    /\ last' = [last EXCEPT !.pm.calls = Append(@, g_out.ret.calls[Len(@) + 1])]
    /\ UNCHANGED <<rag_service, faiss_disk, root_pdfs, sub_pdfs, kb_pickle, http, gvars,
                   gets>>

PmReturn ==
    /\ last.pm.called
    /\ http = NoHttp
    /\ Len(last.pm.calls) = Len(g_out.ret.calls)
    /\ last' = [last EXCEPT !.pm.result = g_out.ret.result,
                            !.pm.verdicts = g_out.ret.verdicts,
                            !.search = g_out.ret.search]
    /\ http' = [Reply("chat", 200, "", "") EXCEPT
                  !.conversation_id = "uuid", !.body = g_out.ret.result]
    /\ UNCHANGED <<rag_service, faiss_disk, root_pdfs, sub_pdfs, kb_pickle, gvars, gets>>

NextSteps ==
    \/ PmBegin
    \/ PmCall
    \/ PmReturn

SpecSteps == InitSteps /\ [][NextSteps]_vars /\ WF_vars(NextSteps)

\* ================================================================== claims
\* ---- GroqService (under SpecText)

\* C5 (as claimed): every string generate_response and
\* generate_response_from_prompt return ends with the signature
\* 'Best regards,\nTechCorp Solutions Customer Service', and holds it exactly once.
C5_SignatureExactlyOnce ==
    g_out.fn \in {"generate_response", "generate_response_from_prompt"}
    => /\ EndsWithSignature(g_out.text)
       /\ Cardinality(SignatureAt(g_out.text)) = 1

\* C6 (as claimed): no string generate_response returns holds a placeholder,
\* whatever the reply, the context and the outcome of the API call.
C6_NoPlaceholderReturned ==
    g_out.fn = "generate_response" => ~HasPlaceholder(g_out.text)

\* C6 (amended): when the API call returned a non-empty reply, the string
\* generate_response returns holds no placeholder in either letter case; when
\* the call failed, the fallback text holds one only if the first 150
\* characters of the context do.
C6_NoPlaceholderFromReply ==
    g_out.fn = "generate_response"
    => /\ (g_api.ok /\ Strip(g_api.content) # <<>>) => ~HasPlaceholder(g_out.text)
       /\ HasPlaceholder(g_out.text) => HasPlaceholder(Slice(g_context, ContextSlice))

\* a reply with a placeholder came back cleaned, with its own words kept
C6_Witness ==
    /\ g_out.fn = "generate_response"
    /\ g_api.ok
    /\ HasPlaceholder(g_api.content)
    /\ "W" \in Range(g_out.text)
    /\ ~HasPlaceholder(g_out.text)

\* C7 (as claimed): _clean_response returns the canned fallback when the text
\* left after placeholder replacement, signature stripping and trimming is
\* shorter than 20 characters, is 'dear valued customer' or is a single
\* markdown header line, and otherwise that text followed by the signature.
C7_LengthGate ==
    g_out.fn = "_clean_response"
    => LET body == CleanedBody(g_api.content)
           gated == \/ TextLen(body) < MinCleanLen
                    \/ body = <<"DV">>
                    \/ (IsMarkdownHeader(body) /\ "NL" \notin Range(body))
       IN IF gated THEN g_out.text = FallbackResponse(<<>>, <<>>)
          ELSE g_out.text = body \o <<"NL", "NL">> \o Signature

\* ---- RAGService and the endpoints (under Spec)

\* C1 (as claimed): search_documents_faiss runs the legacy TF-IDF search only
\* in a call that finds no FAISS index or no documents.
C1_LegacyOnlyWithoutIndex ==
    (last.search.ran /\ last.search.legacy) => ~last.search.had_index

\* C1 (amended): search_documents_faiss runs the legacy TF-IDF search only in
\* a call that finds no FAISS index or no documents, or in which the FAISS
\* retrieval raised; a call whose retrieval succeeds does not run it.
C1_LegacyWithoutIndexOrAfterRaise ==
    last.search.ran
    => /\ last.search.legacy <=> (~last.search.had_index \/ last.search.faiss_raised)
       /\ last.search.faiss_raised => last.search.had_index

\* a search that found no index and ran the legacy search
C1_Witness ==
    /\ last.search.ran
    /\ last.search.legacy
    /\ ~last.search.had_index

\* C2 (as claimed): whenever document_vectors is not None it has one row per
\* entry of documents, in the same order, each row computed from that entry.
C2_VectorsMatchDocuments ==
    (rag_service.some /\ rag_service.val.document_vectors.some)
    => rag_service.val.document_vectors.val = Contents(rag_service.val.documents)

\* C3: once the index is saved on disk it stays there, and every construction
\* of RAGService that finds it loads it: the construction does not raise,
\* ends with faiss_index set and documents holding the saved chunks, and
\* processes no PDF.
C3_IndexReloadedOnStartup ==
    [][/\ faiss_disk.kind = "valid" => faiss_disk'.kind = "valid"
       /\ (faiss_disk.kind = "valid" /\ last'.ctor.ran)
          => /\ ~last'.ctor.raised
             /\ last'.ctor.loaded
             /\ last'.ctor.index
             /\ last'.ctor.docs = faiss_disk.chunks
             /\ last'.ctor.processed = 0]_vars

\* a RAGService constructed from the index that an earlier one saved
C3_Witness ==
    /\ last.ctor.ran
    /\ last.ctor.loaded
    /\ last.ctor.docs = PdfChunks("TechCorp")
    /\ faiss_disk = DiskValid(PdfChunks("TechCorp"))

\* C4: the calls of process_message are a prefix of greeting check, farewell
\* check, relevance check, search, answer generation; the search runs only
\* after the greeting and farewell checks said no and the relevance check
\* said yes, and the answer is generated only when the search found a document.
C4_ClassifyBeforeRetrieve ==
    last.pm.called
    => LET calls == last.pm.calls
           order == <<"is_greeting", "is_farewell", "is_relevant", "search", "generate">>
       IN /\ Len(calls) \in 1..Len(order)
          /\ calls = SubSeq(order, 1, Len(calls))
          /\ last.search.ran <=> "search" \in Range(calls)
          /\ "search" \in Range(calls)
             => last.pm.verdicts = [greeting |-> "no", farewell |-> "no", relevant |-> "yes"]
          /\ "generate" \in Range(calls) <=> (last.search.ran /\ last.search.n > 0)

\* a message that went through all five calls
C4_Witness ==
    /\ last.pm.called
    /\ Len(last.pm.calls) = 5
    /\ last.search.n > 0

\* C8: process_message does not raise, whatever calls of the hosted API fail
\* and whether the retrieval raises; it returns the six keys, with a
\* response that is not empty.
C8_CatchAndFallback ==
    last.pm.called
    => /\ ~last.pm.raised
       /\ DOMAIN last.pm.result = {"response", "confidence", "context_used", "sources",
                                   "suggested_responses", "pdf_available"}
       /\ last.pm.result.response # <<>>

\* a message answered although the retrieval raised and the answer call failed
C8_Witness ==
    /\ last.pm.called
    /\ last.search.faiss_raised
    /\ last.search.n > 0
    /\ Head(last.pm.result.response) = "FB"

C10_ReplyCarriesResult ==
    (http.endpoint = "chat" /\ http.status = 200)
    => LET req == last.request
       IN /\ http.conversation_id =
               IF req.conversation_id.some /\ req.conversation_id.val # ""
               THEN req.conversation_id.val ELSE "uuid"
          /\ last.pm.called
          /\ last.pm.arg = Strip(req.message)
          /\ http.body = last.pm.result

\* a message with blanks around it, answered under the request's conversation_id
C10_Witness ==
    /\ http.endpoint = "chat"
    /\ http.status = 200
    /\ http.conversation_id = "c1"
    /\ last.request.message # Strip(last.request.message)
    /\ http.body.context_used

\* C11 (as claimed): after rebuild_faiss_index returned True (the rebuild
\* endpoint answered 200), the vector index and documents hold the chunks of
\* every PDF that get_pdf_info reports.
C11_RebuildIndexesEveryPdf ==
    (http.endpoint = "rebuild" /\ http.status = 200)
    => LET files == GetPdfInfo(root_pdfs, sub_pdfs).files
       IN \A i \in 1..Len(files) :
            /\ Range(PdfChunks(files[i])) \subseteq Range(Contents(rag_service.val.documents))
            /\ Range(PdfChunks(files[i])) \subseteq Range(rag_service.val.faiss_index.val)

\* C12 (as claimed): the chunks of every file for which add_document returned
\* 'success' on this instance are among the chunks that the search of a later
\* process_message call ranks, with or without a FAISS index.
C12_UploadedChunksSearched ==
    (last.search.ran /\ rag_service.some)
    => rag_service.val.added \subseteq last.search.over

\* C13: the rebuild endpoint answers 200 'FAISS index rebuilt successfully'
\* exactly when rebuild_faiss_index returned True and 500 otherwise; the
\* health endpoint answers 200 'healthy' exactly when a RAGService could be
\* obtained and 500 'unhealthy' when constructing one raised.
C13_RebuildAndHealthStatus ==
    /\ http.endpoint = "rebuild"
       => /\ (http.status = 200 /\ http.message = "FAISS index rebuilt successfully")
             <=> (last.rebuild.called /\ last.rebuild.ok)
          /\ ~(last.rebuild.called /\ last.rebuild.ok) => http.status = 500
    /\ http.endpoint = "health"
       => /\ (http.status = 200 /\ http.message = "healthy") <=> rag_service.some
          /\ (http.status = 500 /\ http.error = "unhealthy")
             <=> (last.ctor.ran /\ last.ctor.raised)
          /\ http.status \in {200, 500}

\* rebuild_faiss_index returned False and the endpoint answered 500
C13_Witness ==
    /\ http.endpoint = "rebuild"
    /\ last.rebuild.called /\ ~last.rebuild.ok
    /\ http.status = 500 /\ http.error = "Failed to rebuild FAISS index"

C15_ConfidenceValues ==
    (last.pm.called /\ ~last.pm.raised)
    => LET c == last.pm.result.confidence
           v == last.pm.verdicts
           q == last.search.sims
       IN /\ c \in {300, 360} \cup (420..570)
          /\ (v.greeting = "yes" \/ v.farewell = "yes") => c = 570
          /\ v.relevant = "no" => c = 300
          /\ (last.search.ran /\ q = <<>>) => c = 360
          /\ (last.search.ran /\ q # <<>>)
             => LET mean == (60 * SumOf(q)) \div Len(q)
                IN /\ mean < 420 => c = 420
                   /\ mean > 570 => c = 570
                   /\ mean \in 420..570 => c = mean

\* the documents returned have a mean similarity above 0.95 and the answer
\* carries 0.95
C15_Witness ==
    /\ last.pm.called /\ last.search.ran /\ last.search.sims # <<>>
    /\ (60 * SumOf(last.search.sims)) \div Len(last.search.sims) > 570
    /\ last.pm.result.confidence = 570

\* C16: context_used is True exactly when sources is non-empty, and that
\* happens only on the branch where the search returned at least one
\* document; on every other branch context_used is False and sources is empty.
C16_ContextUsedIffSources ==
    (last.pm.called /\ ~last.pm.raised)
    => LET r == last.pm.result
       IN /\ r.context_used <=> r.sources # <<>>
          /\ r.context_used <=> (last.search.ran /\ last.search.n >= 1)
          /\ ~(last.search.ran /\ last.search.n >= 1)
             => (~r.context_used /\ r.sources = <<>>)

\* an answer built on the documents a search returned
C16_Witness ==
    /\ last.pm.called /\ last.search.ran /\ last.search.n >= 1
    /\ last.pm.result.context_used
    /\ Len(last.pm.result.sources) = last.search.n

\* ---- the classifiers and _chat (under SpecGroq)
\* C17: analyze_query_intent always returns one of the eight intents: the
\* lower-cased reply when that is one of them, 'general' for any other reply
\* and when the API call failed; so with the API down neither is_greeting nor
\* is_farewell says yes.
C17_IntentAlwaysValid ==
    /\ g_out.fn = "analyze_query_intent"
       => LET reply == Strip(g_api.content)
              valid == /\ g_api.ok /\ Len(reply) = 1
                       /\ LowerTok(reply[1]) \in ValidIntents
          IN /\ ~g_out.ret.raised
             /\ g_out.ret.val \in ValidIntents
             /\ valid => g_out.ret.val = LowerTok(reply[1])
             /\ ~valid => g_out.ret.val = "general"
    /\ (g_out.fn \in {"is_greeting", "is_farewell"} /\ ~g_api.ok)
       => (~g_out.ret.raised /\ ~g_out.ret.val)

\* a reply that is none of the eight intents was classified 'general'
C17_Witness ==
    /\ g_out.fn = "analyze_query_intent"
    /\ g_api.ok /\ Strip(g_api.content) = <<"chitchat">>
    /\ g_out.ret.val = "general"

\* C18: check_relevance returns true only if the reply, trimmed and
\* lower-cased, is exactly 'relevant'; with any other reply or a failed call
\* the message is not relevant, and process_message answers with the fallback
\* text at confidence 0.5 without searching.
C18_RelevanceExactMatch ==
    LET exact == g_api.ok /\ Lower(Strip(g_api.content)) = <<"relevant">>
    IN /\ g_out.fn = "check_relevance"
          => (~g_out.ret.raised /\ (g_out.ret.val <=> exact))
       /\ (g_out.fn = "process_message" /\ ~exact)
          => /\ ~g_out.ret.raised
             /\ g_out.ret.result.response = GenerateFallbackResponse(<<"hello">>)
             /\ g_out.ret.result.confidence = 300
             /\ ~g_out.ret.search.ran
             /\ "search" \notin Range(g_out.ret.calls)

\* a reply that mentions 'relevant' without being exactly that word got the
\* fallback answer and no search
C18_Witness ==
    /\ g_out.fn = "process_message"
    /\ g_api.ok /\ "relevant" \in Range(Lower(g_api.content))
    /\ Lower(Strip(g_api.content)) # <<"relevant">>
    /\ g_out.ret.result.confidence = 300
    /\ ~g_out.ret.search.ran

\* C19: _chat never raises; it returns the trimmed content of the first
\* choice when the API answered 200 with a well-formed body and None
\* otherwise; the request it sends has a temperature above 0 (0.1 in place of
\* a value of 0 or less) and max_tokens of at most 8192.
C19_ChatNeverRaises ==
    g_out.fn = "_chat"
    => LET r == g_out.ret
           c == g_api.content
       IN /\ ~r.raised
          /\ g_api.kind # "ok" => r.val = None
          /\ g_api.kind = "ok"
             => /\ r.val.some
                /\ \E i \in 0..Len(c) : \E j \in i..Len(c) :
                     /\ r.val.val = SubSeq(c, i + 1, j)
                     /\ \A k \in (1..i) \cup ((j + 1)..Len(c)) : c[k] \in Whitespace
                /\ r.val.val # <<>>
                   => /\ r.val.val[1] \notin Whitespace
                      /\ r.val.val[Len(r.val.val)] \notin Whitespace
          /\ r.data.temperature > 0
          /\ r.data.max_tokens <= 8192
          /\ r.data.temperature = IF g_out.args.temperature <= 0 THEN 1
                                  ELSE g_out.args.temperature
          /\ g_out.args.max_tokens <= 8192 => r.data.max_tokens = g_out.args.max_tokens

\* a call with temperature 0 and max_tokens above the limit, answered by a
\* body that is not the expected JSON
C19_Witness ==
    /\ g_out.fn = "_chat"
    /\ g_out.args.temperature = 0 /\ g_out.args.max_tokens > 8192
    /\ g_out.ret.data = [temperature |-> 1, max_tokens |-> 8192]
    /\ g_api.kind = "malformed" /\ g_out.ret.val = None

\* ---- construction (under SpecCtor)
\* C20: when __init__ loaded the FAISS index from disk it processes no PDF and
\* does not load the pickled knowledge base; otherwise load_sample_documents
\* calls process_pdf_and_index only when documents is empty, and
\* force_process_pdf runs only when documents is still empty after that, so
\* at most one PDF is indexed per construction.
C20_ConstructionIndexesOnce ==
    last.ctor.ran
    => LET t == last.ctor.trace
       IN /\ last.ctor.loaded
             => /\ last.ctor.processed = 0
                /\ \A i \in 1..Len(t) :
                     /\ t[i].fn = "load_faiss_index"
                     /\ ~t[i].attempted
          /\ \A i \in 1..Len(t) :
               /\ t[i].fn \in {"load_faiss_index", "load_knowledge_base"}
                  => ~t[i].attempted
               /\ (t[i].fn = "load_sample_documents" /\ t[i].attempted) => t[i].empty
               /\ t[i].fn = "force_process_pdf" => t[i].empty
          /\ Cardinality({i \in 1..Len(t) : t[i].indexed}) <= 1
          /\ last.ctor.processed <= 1

\* a start without an index on disk that found documents in the pickled
\* knowledge base and a PDF in the listing, and indexed nothing
C20_Witness ==
    /\ last.ctor.ran /\ ~last.ctor.loaded /\ ~last.ctor.raised
    /\ GetPdfInfo(root_pdfs, sub_pdfs).available
    /\ \E i \in 1..Len(last.ctor.trace) :
         /\ last.ctor.trace[i].fn = "load_sample_documents"
         /\ ~last.ctor.trace[i].empty
         /\ ~last.ctor.trace[i].attempted
    /\ last.ctor.processed = 0

\* ---- get_rag_service (under SpecThreads)
\* C21 (as claimed): after reset_rag_service the next call of get_rag_service
\* constructs a new RAGService, and until the next reset every call of
\* get_rag_service returns that same instance: two calls that began and
\* returned with no reset since hold one and the same instance.
C21_SameInstanceUntilReset ==
    \A t \in Threads : \A u \in Threads :
      ( /\ gets.call[t].pc = "returned" /\ gets.call[t].since = gets.resets
        /\ gets.call[u].pc = "returned" /\ gets.call[u].since = gets.resets )
      => (gets.call[t].got = gets.call[u].got /\ gets.call[t].got # 0)

\* ---- process_message call by call (under SpecSteps)
\* C22: handling one chat message terminates, and it makes at most four calls
\* to the hosted API: at most two intent classifications, at most one
\* relevance check and at most one answer generation, none of them repeated.
C22_FourCallsAndDone ==
    /\ [](LET c == last.pm.calls
              N(S) == Cardinality({i \in 1..Len(c) : c[i] \in S})
          IN /\ N({"is_greeting", "is_farewell"}) <= 2
             /\ N({"is_greeting"}) <= 1
             /\ N({"is_farewell"}) <= 1
             /\ N({"is_relevant"}) <= 1
             /\ N({"generate"}) <= 1
             /\ N({"is_greeting", "is_farewell", "is_relevant", "generate"}) <= 4)
    /\ <>(http.endpoint = "chat")

\* a message answered after all four calls
C22_Witness ==
    /\ http.endpoint = "chat"
    /\ Cardinality({i \in 1..Len(last.pm.calls) :
                     last.pm.calls[i] \in {"is_greeting", "is_farewell", "is_relevant",
                                           "generate"}}) = 4
====
